---- MODULE Spec2Model ----
(***************************************************************************)
(* Model of listen_to_wordly (src/app_v3_mvp.py): the message loop that    *)
(* reconciles the phrase feed into in-place updates and committed lines.   *)
(*                                                                         *)
(* Strings are sequences of one-character strings, so that concatenation   *)
(* and the regular expression of lines 170 and 181 are computed on the     *)
(* characters.  A print without newline is an "Update" command, a print    *)
(* with newline a "Commit" command; the id a command bears is the phrase   *)
(* whose text is printed, and cr says whether the print starts with "\r".  *)
(***************************************************************************)
EXTENDS Integers, Sequences, FiniteSets, TLC

VARIABLES
    pc,                    \* position of the coroutine: in the loop, or how it left
    connection_successful, \* line 85
    current_phrase_id,     \* line 66
    current_phrase_text,   \* line 67
    finalized_phrases,     \* line 68
    last_speaker_id,       \* line 71
    last_speaker_tag,      \* line 72
    prefix,                \* local of line 147: prefix computed at the last open
    SHOW_SPEAKER_NAMES,    \* line 19
    SHOW_SPEAKER_CHANGES,  \* line 20
    msg,                   \* message, line 86: the last message read, decoded
    emitted,               \* render commands printed while handling msg
    commits,               \* per phrase id, number of newline-terminated lines printed
    banner_printed,        \* ATTRIBUTION_LINE was printed while handling msg
    unread                 \* messages sent by the upstream after the loop was left

vars == <<pc, connection_successful, current_phrase_id, current_phrase_text,
          finalized_phrases, last_speaker_id, last_speaker_tag, prefix,
          SHOW_SPEAKER_NAMES, SHOW_SPEAKER_CHANGES, msg, emitted, commits,
          banner_printed, unread>>

\* The buffering state and the speaker memory (lines 65-72).
buffer == <<current_phrase_id, current_phrase_text, finalized_phrases,
            last_speaker_id, last_speaker_tag>>

----------------------------------------------------------------------------
\* Bounds of the model.

MaxPhraseId == 2
MaxUnread == 1

\* Python's None, for a phrase id, a speaker id or a speaker tag (ids are 1..).
None == 0

PhraseIds == 1..MaxPhraseId
PhraseIdValues == {None} \cup PhraseIds

\* (speakerld, speakerTag) of a message: no speaker fields, an id alone, an
\* id and a tag.  Between them either field alone changes, or both.
Speakers == { <<None, None>>, <<1, None>>, <<1, 1>> }

\* The language the session was started for (parameter target_lang).
target_lang == "en"
Langs == {"en", "es"}

\* translatedText values: a key that is absent, a JSON null, and strings.
MissingText == <<"absent">>
NullText == <<"null">>
Texts == { <<"a">>, <<">", ">", " ", "a">>, <<"n", ":", " ", "a">> }
TextValues == Texts \cup {MissingText, NullText}

\* name values: absent (None) or a name.  Line 151 reads the name only when
\* SHOW_SPEAKER_NAMES is set, so a feed for a session without the option is
\* enumerated without names.
Names == { <<>>, <<"n">> }
NamesSent == IF SHOW_SPEAKER_NAMES THEN Names ELSE { <<>> }

PhraseMsg(lang, id, text, final, speaker, name) ==
    [type |-> "phrase", success |-> FALSE,
     translatedLanguageCode |-> lang, phraseld |-> id,
     translatedText |-> text, isFinal |-> final,
     speakerld |-> speaker[1], speakerTag |-> speaker[2], name |-> name]

\* Phrase messages in the target language: every combination of the fields.
TargetMsgs ==
    { PhraseMsg(target_lang, id, text, final, speaker, name) :
        id \in PhraseIdValues, text \in TextValues, final \in BOOLEAN,
        speaker \in Speakers, name \in NamesSent }

\* Phrase messages in another language: line 122 reads nothing else, they
\* carry any id, flag and speaker.
ForeignMsgs ==
    { PhraseMsg(lang, id, <<"a">>, final, speaker, <<>>) :
        lang \in Langs \ {target_lang}, id \in PhraseIdValues,
        final \in BOOLEAN, speaker \in Speakers }

PhraseMsgs == TargetMsgs \cup ForeignMsgs

Blank(t, s) ==
    [type |-> t, success |-> s, translatedLanguageCode |-> target_lang,
     phraseld |-> None, translatedText |-> MissingText, isFinal |-> FALSE,
     speakerld |-> None, speakerTag |-> None, name |-> <<>>]

StatusMsgs == { Blank("status", s) : s \in BOOLEAN }
EndMsg == Blank("end", FALSE)
ErrorMsg == Blank("error", FALSE)
\* "users", "speech", "echo" and any unknown type: lines 201-203.
OtherMsg == Blank("other", FALSE)
\* A message that json.loads rejects: lines 205-206.
NonJsonMsg == Blank("nonjson", FALSE)
NoMsg == Blank("none", FALSE)

----------------------------------------------------------------------------
\* Render commands.

\* print(f"\r{text}", end=""), lines 163 and 175
Update(id, text) == [cmd |-> "Update", id |-> id, text |-> text, cr |-> TRUE]
\* print(f"\r{text}"), line 187
Commit(id, text) == [cmd |-> "Commit", id |-> id, text |-> text, cr |-> TRUE]
\* print(text), line 141: a newline-terminated line without carriage return
CommitLine(id, text) == [cmd |-> "Commit", id |-> id, text |-> text, cr |-> FALSE]

CommitsFor(id, out) == Cardinality({ i \in 1..Len(out) : out[i].cmd = "Commit" /\ out[i].id = id })

----------------------------------------------------------------------------
\* re.sub(r"^(>> )?([^:]+: )?", "", s): length of what the pattern matches.

MARKER == <<">", ">", " ">>

\* (>> )? at the start of s
MarkerLen(s) ==
    IF Len(s) >= 3 /\ SubSeq(s, 1, 3) = MARKER THEN 3 ELSE 0

\* ([^:]+: )? at the start of r: one or more characters other than ':', then ": "
NameLen(r) ==
    LET colons == { i \in 1..Len(r) : r[i] = ":" }
    IN  IF colons = {} THEN 0
        ELSE LET k == CHOOSE i \in colons : \A j \in colons : i <= j
             IN  IF k >= 2 /\ k + 1 <= Len(r) /\ r[k + 1] = " " THEN k + 1 ELSE 0

\* len(current_phrase_text) - len(re.sub(...)), lines 170 and 181
ExistingPrefixLen(s) ==
    LET m == MarkerLen(s)
    IN  m + NameLen(SubSeq(s, m + 1, Len(s)))

ExistingPrefix(s) == SubSeq(s, 1, ExistingPrefixLen(s))

----------------------------------------------------------------------------
\* The phrase branch, lines 121-195.  Each stage maps the locals to their new
\* values; `out` is what has been printed so far in this iteration and
\* `raised` says that a TypeError left the branch for the handler of line 207.

\* data.get("translatedText", ""), line 126
DataGetText(e) ==
    IF e.translatedText = MissingText THEN <<>> ELSE e.translatedText

\* The filter of line 122 left out.
AnyLanguage(e) == TRUE

\* line 122
IsTargetLanguage(e) == e.translatedLanguageCode = target_lang

\* The test of line 134 left out.
NeverFinalized(phrase_id) == FALSE

\* line 134
AlreadyFinalized(phrase_id) == phrase_id \in finalized_phrases

\* Line 119 without its second operand.
PhraseBranchAlwaysOpen == TRUE

\* line 119: the second operand of the elif
PhraseBranchOpen == connection_successful

\* The breaks of lines 111 and 116 as continues.
LoopNeverLeft == TRUE

\* line 86: the loop is still iterating
LoopRunning == pc = "loop"

\* line 146
SpeakerChanged(speaker_id, speaker_tag) ==
    speaker_id # last_speaker_id \/ speaker_tag # last_speaker_tag

\* Lines 147-152 with the two appends of lines 150 and 152 exchanged.
ComputePrefixNameFirst(speaker_changed, speaker_name) ==
    IF speaker_changed
    THEN (IF SHOW_SPEAKER_NAMES /\ speaker_name # <<>>
          THEN speaker_name \o <<":", " ">> ELSE <<>>)
         \o (IF SHOW_SPEAKER_CHANGES THEN MARKER ELSE <<>>)
    ELSE <<>>

\* lines 147-152
ComputePrefix(speaker_changed, speaker_name) ==
    IF speaker_changed
    THEN (IF SHOW_SPEAKER_CHANGES THEN MARKER ELSE <<>>)
         \o (IF SHOW_SPEAKER_NAMES /\ speaker_name # <<>>
             THEN speaker_name \o <<":", " ">> ELSE <<>>)
    ELSE <<>>

\* Lines 140-143 without the print of line 141.
RolloverWithoutPrint ==
    IF current_phrase_id # None
    THEN [out |-> <<>>, fin |-> finalized_phrases \cup {current_phrase_id}]
    ELSE [out |-> <<>>, fin |-> finalized_phrases]

\* lines 140-143: the previous phrase is printed with a newline
Rollover ==
    IF current_phrase_id # None
    THEN [out |-> <<CommitLine(current_phrase_id, current_phrase_text)>>,
          fin |-> finalized_phrases \cup {current_phrase_id}]
    ELSE [out |-> <<>>, fin |-> finalized_phrases]

\* lines 138-164: a phrase id other than the open one
NewPhrase(e) ==
    LET text == DataGetText(e)
        r == Rollover
        p == ComputePrefix(SpeakerChanged(e.speakerld, e.speakerTag), e.name)
    IN  [id |-> e.phraseld,
         \* prefix + None raises TypeError at line 161, after line 160
         text |-> IF text = NullText THEN current_phrase_text ELSE p \o text,
         fin |-> r.fin,
         sid |-> e.speakerld,
         stag |-> e.speakerTag,
         prefix |-> p,
         out |-> IF text = NullText THEN r.out
                 ELSE Append(r.out, Update(e.phraseld, p \o text)),
         raised |-> text = NullText]

\* Lines 167-176 with the assignments of lines 155-156 repeated.
UpdatePhraseWritesSpeaker(e) ==
    LET text == DataGetText(e)
        existing_prefix == ExistingPrefix(current_phrase_text)
    IN  [id |-> current_phrase_id,
         text |-> IF text = NullText THEN current_phrase_text
                  ELSE existing_prefix \o text,
         fin |-> finalized_phrases,
         sid |-> e.speakerld,
         stag |-> e.speakerTag,
         prefix |-> prefix,
         out |-> IF text = NullText THEN <<>>
                 ELSE <<Update(e.phraseld, existing_prefix \o text)>>,
         raised |-> text = NullText]

\* lines 167-176: the open phrase again
UpdatePhrase(e) ==
    LET text == DataGetText(e)
        existing_prefix == ExistingPrefix(current_phrase_text)
    IN  [id |-> current_phrase_id,
         \* existing_prefix + None raises TypeError at line 173
         text |-> IF text = NullText THEN current_phrase_text
                  ELSE existing_prefix \o text,
         fin |-> finalized_phrases,
         sid |-> last_speaker_id,
         stag |-> last_speaker_tag,
         prefix |-> prefix,
         out |-> IF text = NullText THEN <<>>
                 ELSE <<Update(e.phraseld, existing_prefix \o text)>>,
         raised |-> text = NullText]

\* Lines 179-195 with the line rewritten once more before the final print.
FinalizePrintsTwice(s, e) ==
    LET text == DataGetText(e)
        final_text == ExistingPrefix(s.text) \o text
    IN  [s EXCEPT !.id = None,
                  !.text = <<>>,
                  !.fin = s.fin \cup {e.phraseld},
                  !.out = s.out \o <<Update(e.phraseld, final_text),
                                     Commit(e.phraseld, final_text)>>]

\* Lines 179-195 without the reset of lines 193-194.
FinalizeKeepsOpen(s, e) ==
    LET text == DataGetText(e)
        final_text == ExistingPrefix(s.text) \o text
    IN  [s EXCEPT !.text = final_text,
                  !.fin = s.fin \cup {e.phraseld},
                  !.out = Append(s.out, Commit(e.phraseld, final_text))]

\* lines 179-195, applied to the locals s left by NewPhrase or UpdatePhrase
Finalize(s, e) ==
    LET text == DataGetText(e)
        final_text == ExistingPrefix(s.text) \o text
    IN  [s EXCEPT !.id = None,
                  !.text = <<>>,
                  !.fin = s.fin \cup {e.phraseld},
                  !.out = Append(s.out, Commit(e.phraseld, final_text))]

\* Lines 137-195 with a message without phraseld always taken as a new phrase.
ApplyPhraseIdLessIsNew(e) ==
    LET s == IF e.phraseld # current_phrase_id \/ e.phraseld = None
             THEN NewPhrase(e) ELSE UpdatePhrase(e)
    IN  IF e.isFinal /\ ~s.raised THEN Finalize(s, e) ELSE s

\* lines 137-195
ApplyPhrase(e) ==
    LET s == IF e.phraseld # current_phrase_id THEN NewPhrase(e) ELSE UpdatePhrase(e)
    IN  IF e.isFinal /\ ~s.raised THEN Finalize(s, e) ELSE s

Store(s) ==
    /\ current_phrase_id' = s.id
    /\ current_phrase_text' = s.text
    /\ finalized_phrases' = s.fin
    /\ last_speaker_id' = s.sid
    /\ last_speaker_tag' = s.stag
    /\ prefix' = s.prefix
    /\ emitted' = s.out
    /\ commits' = [i \in PhraseIdValues |-> commits[i] + CommitsFor(i, s.out)]

\* An iteration that prints nothing and assigns nothing but data.
NoEffect ==
    /\ emitted' = <<>>
    /\ UNCHANGED <<buffer, prefix, commits>>

config == <<SHOW_SPEAKER_NAMES, SHOW_SPEAKER_CHANGES>>

\* The session state the loop is in: connecting until line 102 sets the flag,
\* active afterwards, failed after the break of line 111, ended after the
\* break of line 116 or once the iterator of line 86 stopped.
SessionState ==
    IF pc = "loop"
    THEN (IF connection_successful THEN "Active" ELSE "Connecting")
    ELSE IF pc = "broke_failed" THEN "Failed"
    ELSE "Ended"

----------------------------------------------------------------------------
Init ==
    /\ pc = "loop"
    /\ connection_successful = FALSE
    /\ current_phrase_id = None
    /\ current_phrase_text = <<>>
    /\ finalized_phrases = {}
    /\ last_speaker_id = None
    /\ last_speaker_tag = None
    /\ prefix = <<>>
    /\ SHOW_SPEAKER_NAMES = FALSE
    /\ SHOW_SPEAKER_CHANGES = TRUE
    /\ msg = NoMsg
    /\ emitted = <<>>
    /\ commits = [i \in PhraseIdValues |-> 0]
    /\ banner_printed = FALSE
    /\ unread = 0

\* lines 99-111
OnStatus(e) ==
    /\ LoopRunning
    /\ msg' = e
    /\ IF e.success
       THEN /\ connection_successful' = TRUE
            /\ banner_printed' = TRUE
            /\ pc' = pc
       ELSE /\ pc' = "broke_failed"
            /\ banner_printed' = FALSE
            /\ UNCHANGED connection_successful
    /\ NoEffect
    /\ UNCHANGED <<config, unread>>

\* lines 114-116
OnEnd ==
    /\ LoopRunning
    /\ msg' = EndMsg
    /\ pc' = "broke_end"
    /\ NoEffect
    /\ banner_printed' = FALSE
    /\ UNCHANGED <<connection_successful, config, unread>>

\* lines 119-195; a phrase that fails the test of line 119 falls through
\* the remaining elifs without effect
OnPhrase(e) ==
    /\ LoopRunning
    /\ msg' = e
    /\ IF ~PhraseBranchOpen THEN NoEffect
       ELSE IF ~IsTargetLanguage(e) THEN NoEffect
       ELSE IF AlreadyFinalized(e.phraseld) THEN NoEffect
       ELSE Store(ApplyPhrase(e))
    /\ banner_printed' = FALSE
    /\ UNCHANGED <<pc, connection_successful, config, unread>>

\* Lines 198-199 followed by a break.
OnErrorBreaks ==
    /\ LoopRunning
    /\ msg' = ErrorMsg
    /\ pc' = "broke_error"
    /\ NoEffect
    /\ banner_printed' = FALSE
    /\ UNCHANGED <<connection_successful, config, unread>>

\* lines 198-199
OnError ==
    /\ LoopRunning
    /\ msg' = ErrorMsg
    /\ NoEffect
    /\ banner_printed' = FALSE
    /\ UNCHANGED <<pc, connection_successful, config, unread>>

\* Lines 201-203 followed by a break.
OnOtherBreaks ==
    /\ LoopRunning
    /\ msg' = OtherMsg
    /\ pc' = "broke_end"
    /\ NoEffect
    /\ banner_printed' = FALSE
    /\ UNCHANGED <<connection_successful, config, unread>>

\* lines 201-203
OnOther ==
    /\ LoopRunning
    /\ msg' = OtherMsg
    /\ NoEffect
    /\ banner_printed' = FALSE
    /\ UNCHANGED <<pc, connection_successful, config, unread>>

\* lines 88 and 205-206: json.loads raises
OnNonJson ==
    /\ LoopRunning
    /\ msg' = NonJsonMsg
    /\ NoEffect
    /\ banner_printed' = FALSE
    /\ UNCHANGED <<pc, connection_successful, config, unread>>

\* line 86: the iterator ends because the transport closed
FeedClosed ==
    /\ LoopRunning
    /\ pc' = "closed"
    /\ NoEffect
    /\ banner_printed' = FALSE
    /\ UNCHANGED <<msg, connection_successful, config, unread>>

\* lines 210-213: the transport failed
TransportError ==
    /\ LoopRunning
    /\ pc' = "conn_error"
    /\ NoEffect
    /\ banner_printed' = FALSE
    /\ UNCHANGED <<msg, connection_successful, config, unread>>

\* After the loop was left nothing reads the feed: what the upstream still
\* sends stays unread.
Unread ==
    /\ ~LoopRunning
    /\ unread < MaxUnread
    /\ unread' = unread + 1
    /\ NoEffect
    /\ banner_printed' = FALSE
    /\ UNCHANGED <<pc, msg, connection_successful, config>>

Next ==
    \/ \E e \in StatusMsgs : OnStatus(e)
    \/ OnEnd
    \/ LoopRunning /\ \E e \in PhraseMsgs : OnPhrase(e)
    \/ OnError
    \/ OnOther
    \/ OnNonJson
    \/ FeedClosed
    \/ TransportError
    \/ Unread

Spec == Init /\ [][Next]_vars

----------------------------------------------------------------------------
\* The loop under every setting of the two flags of lines 19-20, fed with a
\* successful status and with well-formed phrase messages in the target
\* language that carry or omit a speaker name.

InitConfig ==
    /\ pc = "loop"
    /\ connection_successful = FALSE
    /\ current_phrase_id = None
    /\ current_phrase_text = <<>>
    /\ finalized_phrases = {}
    /\ last_speaker_id = None
    /\ last_speaker_tag = None
    /\ prefix = <<>>
    /\ SHOW_SPEAKER_NAMES \in BOOLEAN
    /\ SHOW_SPEAKER_CHANGES \in BOOLEAN
    /\ msg = NoMsg
    /\ emitted = <<>>
    /\ commits = [i \in PhraseIdValues |-> 0]
    /\ banner_printed = FALSE
    /\ unread = 0

NamedMsgs ==
    { PhraseMsg(target_lang, id, <<"a">>, final, speaker, name) :
        id \in PhraseIds, final \in BOOLEAN,
        speaker \in Speakers, name \in Names }

NextConfig ==
    \/ OnStatus(Blank("status", TRUE))
    \/ LoopRunning /\ \E e \in NamedMsgs : OnPhrase(e)

SpecConfig == InitConfig /\ [][NextConfig]_vars

----------------------------------------------------------------------------
\* Properties.

\* The step is an iteration of the loop that read the phrase message msg'.
PhraseRead == pc = "loop" /\ pc' = "loop" /\ msg'.type = "phrase"

\* The phrase message msg' reached line 137: the session is connected, the
\* language is the target's and the id is not finalized.
PhraseApplied ==
    /\ PhraseRead
    /\ connection_successful
    /\ msg'.translatedLanguageCode = target_lang
    /\ msg'.phraseld \notin finalized_phrases

\* C1: at-most-once commit.  For every phrase id at most one newline-terminated
\* line is ever printed, by isFinal or by rollover, and a phrase message whose
\* id is in the finalized set prints nothing.
C1_AtMostOnceCommit ==
    /\ [](\A id \in PhraseIdValues : commits[id] <= 1)
    /\ [][(PhraseRead /\ msg'.phraseld \in finalized_phrases)
            => (emitted' = <<>> /\ commits' = commits)]_vars

\* C1 witness: a message for a committed phrase id was read and dropped.
C1_Witness ==
    /\ pc = "loop" /\ connection_successful
    /\ msg.type = "phrase" /\ msg.translatedLanguageCode = target_lang
    /\ msg.phraseld \in PhraseIds
    /\ msg.phraseld \in finalized_phrases
    /\ commits[msg.phraseld] = 1
    /\ emitted = <<>>

\* C2: prefix stability.  Every Update and Commit printed for the phrase of the
\* message carries the prefix computed when the phrase opened, followed by
\* the text of the message.
C2_PrefixStability ==
    [][(PhraseApplied /\ msg'.phraseld # None /\ msg'.translatedText # NullText)
        => \A i \in 1..Len(emitted') :
              emitted'[i].id = msg'.phraseld
                 => emitted'[i].text = prefix' \o DataGetText(msg')]_vars

\* C3 as stated: when phrase A is open and a target-language message for a
\* different, not finalized phrase B is read, the first command is the one
\* Commit for A with A's display text, A is finalized and B is the open phrase.
C3_RolloverFlushOriginal ==
    [][(PhraseApplied /\ current_phrase_id # None
            /\ msg'.phraseld # current_phrase_id)
        => /\ Len(emitted') >= 1
           /\ emitted'[1].cmd = "Commit"
           /\ emitted'[1].id = current_phrase_id
           /\ emitted'[1].text = current_phrase_text
           /\ CommitsFor(current_phrase_id, emitted') = 1
           /\ \A i \in 2..Len(emitted') : emitted'[i].id = msg'.phraseld
           /\ current_phrase_id \in finalized_phrases'
           /\ current_phrase_id' = msg'.phraseld]_vars

\* C3 amended: as above, but B is the open phrase afterwards only when the
\* message is not final; a final message with a text commits B in the same
\* iteration, so that B is finalized too and no phrase is open.
C3_RolloverFlush ==
    [][(PhraseApplied /\ current_phrase_id # None
            /\ msg'.phraseld # current_phrase_id)
        => /\ Len(emitted') >= 1
           /\ emitted'[1].cmd = "Commit"
           /\ emitted'[1].id = current_phrase_id
           /\ emitted'[1].text = current_phrase_text
           /\ CommitsFor(current_phrase_id, emitted') = 1
           /\ \A i \in 2..Len(emitted') : emitted'[i].id = msg'.phraseld
           /\ current_phrase_id \in finalized_phrases'
           /\ IF msg'.isFinal /\ msg'.translatedText # NullText
              THEN /\ current_phrase_id' = None
                   /\ msg'.phraseld \in finalized_phrases'
              ELSE current_phrase_id' = msg'.phraseld]_vars

\* C3 witness: a rollover just happened, A committed and B opened.
C3_Witness ==
    /\ pc = "loop"
    /\ Len(emitted) = 2
    /\ emitted[1].cmd = "Commit" /\ emitted[1].id \in PhraseIds
    /\ emitted[1].id \in finalized_phrases
    /\ emitted[2].cmd = "Update" /\ emitted[2].id \in PhraseIds
    /\ emitted[2].id # emitted[1].id
    /\ current_phrase_id = emitted[2].id
    /\ msg.phraseld = emitted[2].id

\* C4: end flush.  When End is read while the session is connected and a
\* phrase is open, exactly one Commit for that phrase is printed.
C4_EndFlush ==
    [][(pc = "loop" /\ connection_successful /\ current_phrase_id # None
            /\ pc' = "broke_end")
        => /\ CommitsFor(current_phrase_id, emitted') = 1
           /\ commits'[current_phrase_id] = 1]_vars

\* C5: teardown flush.  When the feed ends without End (closure or transport
\* error) while a phrase is open, one Commit for that phrase is printed.
C5_TeardownFlush ==
    [][(pc = "loop" /\ connection_successful /\ current_phrase_id # None
            /\ pc' \in {"closed", "conn_error"})
        => /\ CommitsFor(current_phrase_id, emitted') = 1
           /\ commits'[current_phrase_id] = 1]_vars

\* C6: the banner is printed once per session, only at the transition from
\* Connecting to Active: a step prints it iff the session becomes connected
\* in that step, so that it is printed at most once, and once iff the
\* session ever became Active.
C6_BannerOnce ==
    [][banner_printed' <=> (~connection_successful /\ connection_successful')]_vars

\* C7: Ended and Failed are terminal.  Once the loop was left by the break of
\* line 111 or of line 116, no step prints a command or changes the open
\* phrase, the finalized set or the speaker memory.
C7_Terminal ==
    [][(pc \in {"broke_failed", "broke_end"})
        => (emitted' = <<>> /\ UNCHANGED <<buffer, commits>>)]_vars

\* C7 witness: the upstream sent a message after End closed a session that
\* had an open phrase.
C7_Witness ==
    /\ pc = "broke_end"
    /\ connection_successful
    /\ current_phrase_id # None
    /\ unread >= 1

\* C8: phrase gating.  A phrase message read before any successful status
\* prints nothing and leaves the buffer and the speaker memory unchanged.
C8_PhraseGating ==
    [][(PhraseRead /\ ~connection_successful)
        => (emitted' = <<>> /\ UNCHANGED <<buffer, commits>>)]_vars

\* C8 witness: a well-formed final target-language phrase was read while
\* connecting.
C8_Witness ==
    /\ pc = "loop" /\ ~connection_successful
    /\ msg.type = "phrase" /\ msg.translatedLanguageCode = target_lang
    /\ msg.phraseld \in PhraseIds /\ msg.translatedText \in Texts
    /\ msg.isFinal
    /\ emitted = <<>> /\ current_phrase_id = None /\ finalized_phrases = {}

\* C9: language filter.  A phrase message in another language prints nothing
\* and leaves the buffer and the speaker memory unchanged, whatever its id,
\* isFinal flag and speaker fields.
C9_LanguageFilter ==
    [][(PhraseRead /\ msg'.translatedLanguageCode # target_lang)
        => (emitted' = <<>> /\ UNCHANGED <<buffer, commits>>)]_vars

\* C9 witness: while a phrase is open, a final message of another language
\* for another id and another speaker was read.
C9_Witness ==
    /\ pc = "loop" /\ connection_successful
    /\ msg.type = "phrase" /\ msg.translatedLanguageCode # target_lang
    /\ current_phrase_id # None
    /\ msg.phraseld \in PhraseIds /\ msg.phraseld # current_phrase_id
    /\ msg.phraseld \notin finalized_phrases
    /\ msg.isFinal
    /\ msg.speakerld # last_speaker_id
    /\ emitted = <<>>

\* C10: malformed phrase messages are no-ops.  A target-language phrase
\* message without id, or whose text is absent or null, prints nothing, leaves
\* the buffer and the speaker memory unchanged and the session connected.
C10_MalformedNoOp ==
    [][(PhraseRead /\ connection_successful
            /\ msg'.translatedLanguageCode = target_lang
            /\ (msg'.phraseld = None
                  \/ msg'.translatedText \in {MissingText, NullText}))
        => /\ emitted' = <<>>
           /\ UNCHANGED <<buffer, commits>>
           /\ connection_successful']_vars

\* C11: an error message is not fatal.  In every session state, reading it
\* leaves the loop running and the connection flag as it was, prints nothing
\* and leaves the open phrase, the finalized set and the speaker memory
\* unchanged.  (A step into "closed" or "conn_error" is the transport ending,
\* not a message being read.)
C11_ErrorNonFatal ==
    [][(pc = "loop" /\ msg'.type = "error"
            /\ pc' \notin {"closed", "conn_error"})
        => /\ pc' = "loop"
           /\ connection_successful' = connection_successful
           /\ emitted' = <<>>
           /\ ~banner_printed'
           /\ UNCHANGED <<buffer, prefix, commits>>]_vars

\* C11 witness: an error message was read while a phrase is open.
C11_Witness ==
    /\ pc = "loop" /\ connection_successful
    /\ msg.type = "error"
    /\ current_phrase_id # None
    /\ current_phrase_text # <<>>

\* The ids of the phrases opened so far: an opened id is the open one or is
\* finalized.
OpenedIds == ({current_phrase_id} \cup finalized_phrases) \cap PhraseIds

\* The message msg' opens a phrase (lines 138-164) and has a text.
PhraseOpened ==
    /\ PhraseApplied
    /\ msg'.phraseld \in PhraseIds
    /\ msg'.phraseld # current_phrase_id
    /\ msg'.translatedText # NullText

HasMarker(p) == MarkerLen(p) = 3

\* C12: speaker-change marker, Scenario 3.  With markers enabled, the prefix
\* of the first phrase of the session (speaker A) has no change marker, and
\* the prefix of the next phrase, from a different speaker B, has it.
C12_SpeakerChangeMarker ==
    [][(PhraseOpened /\ SHOW_SPEAKER_CHANGES)
        => /\ (OpenedIds = {}) => ~HasMarker(prefix')
           /\ (Cardinality(OpenedIds) = 1
                 /\ <<msg'.speakerld, msg'.speakerTag>>
                      # <<last_speaker_id, last_speaker_tag>>)
              => HasMarker(prefix')]_vars

\* C13 as stated: handling one phrase message prints at most two commands.
C13_AtMostTwoCommands == Len(emitted) <= 2

\* C13 amended: handling one phrase message prints at most three commands,
\* and three only when a final message for a new phrase is read while another
\* phrase is open: the Commit of the open phrase, then the Update and the
\* Commit of the new one.  Every other phrase message prints at most two.
C13_AtMostThreeCommands ==
    [][PhraseRead
        => /\ Len(emitted') <= 3
           /\ Len(emitted') = 3
                => /\ current_phrase_id # None
                   /\ msg'.phraseld # current_phrase_id
                   /\ msg'.isFinal
                   /\ emitted'[1].cmd = "Commit" /\ emitted'[1].id = current_phrase_id
                   /\ emitted'[2].cmd = "Update" /\ emitted'[2].id = msg'.phraseld
                   /\ emitted'[3].cmd = "Commit" /\ emitted'[3].id = msg'.phraseld]_vars

\* C13 witness: a final message for a new phrase was read while another
\* phrase was open.
C13_Witness ==
    /\ pc = "loop" /\ msg.type = "phrase" /\ msg.isFinal
    /\ Len(emitted) = 3
    /\ emitted[1].id \in PhraseIds
    /\ emitted[3].id \in PhraseIds

\* C14: single-open invariant.  The buffer holds either no phrase (no id and
\* an empty display text) or one phrase id with its display text.
C14_SingleOpen ==
    current_phrase_id = None => current_phrase_text = <<>>

\* The step is an iteration of the loop: it read the message msg'.
MessageRead == pc = "loop" /\ pc' \notin {"closed", "conn_error"}

\* The step is the end of the feed: the iterator stopped or the transport
\* failed.
FeedTerminated == pc = "loop" /\ pc' \in {"closed", "conn_error"}

\* C15 as stated: the only session-state transitions are Connecting->Active
\* on Status(success=true), Connecting->Failed on Status(success=false) and
\* Active->Ended on End or feed termination; every other pair of state and
\* event leaves the session state unchanged.
C15_OnlyThreeTransitions ==
    [][SessionState' =
        IF SessionState = "Connecting" /\ MessageRead
              /\ msg'.type = "status" /\ msg'.success
        THEN "Active"
        ELSE IF SessionState = "Connecting" /\ MessageRead
              /\ msg'.type = "status" /\ ~msg'.success
        THEN "Failed"
        ELSE IF SessionState = "Active"
              /\ (FeedTerminated \/ (MessageRead /\ msg'.type = "end"))
        THEN "Ended"
        ELSE SessionState]_vars

\* C15 amended: while the loop runs, in Connecting and in Active alike,
\* Status(success=true) leads to Active, Status(success=false) leads to
\* Failed, End and feed termination lead to Ended; every other message, and
\* everything after Failed or Ended, leaves the session state unchanged.
C15_Transitions ==
    [][SessionState' =
        IF MessageRead /\ msg'.type = "status" /\ msg'.success
        THEN "Active"
        ELSE IF MessageRead /\ msg'.type = "status" /\ ~msg'.success
        THEN "Failed"
        ELSE IF FeedTerminated \/ (MessageRead /\ msg'.type = "end")
        THEN "Ended"
        ELSE SessionState]_vars

\* C15 witness: an active session failed on Status(success=false).
C15_Witness ==
    /\ SessionState = "Failed"
    /\ connection_successful
    /\ msg.type = "status" /\ ~msg.success

\* C16: speaker memory is written when a phrase opens, to the speakerld and
\* speakerTag of the message that opens it, and by no other step: not by an
\* update of the open phrase whatever speaker it names, not by isFinal, not by
\* an ignored message.  A phrase id is opened at most once.
C16_SpeakerMemory ==
    /\ [][IF PhraseApplied /\ msg'.phraseld # current_phrase_id
          THEN /\ last_speaker_id' = msg'.speakerld
               /\ last_speaker_tag' = msg'.speakerTag
          ELSE UNCHANGED <<last_speaker_id, last_speaker_tag>>]_vars
    /\ [][(PhraseApplied /\ msg'.phraseld # current_phrase_id
              /\ msg'.phraseld \in PhraseIds)
            => /\ msg'.phraseld \notin OpenedIds
               /\ msg'.phraseld \in OpenedIds']_vars
    /\ [][OpenedIds \subseteq OpenedIds']_vars

\* C16 witness: an update of the open phrase that names another speaker was
\* read and the memory still holds the speaker that opened the phrase.
C16_Witness ==
    /\ pc = "loop" /\ connection_successful
    /\ msg.type = "phrase" /\ msg.translatedLanguageCode = target_lang
    /\ current_phrase_id \in PhraseIds
    /\ msg.phraseld = current_phrase_id
    /\ Len(emitted) = 1 /\ emitted[1].cmd = "Update"
    /\ emitted[1].text = prefix \o <<"a">>
    /\ msg.translatedText = <<"a">>
    /\ <<msg.speakerld, msg.speakerTag>> = <<None, None>>
    /\ <<last_speaker_id, last_speaker_tag>> = <<1, 1>>
    /\ prefix = MARKER

\* C17: an isFinal message for a phrase id that is not finalized, whether it
\* opens the phrase or updates the open one, prints an Update and then a
\* Commit for that id with the same display text, the phrase's prefix followed
\* by the message's text; afterwards the id is finalized and no phrase is open.
C17_FinalUpdateThenCommit ==
    [][(PhraseApplied /\ msg'.isFinal /\ msg'.phraseld \in PhraseIds
            /\ msg'.translatedText # NullText)
        => LET n == Len(emitted')
           IN  /\ n >= 2
               /\ emitted'[n - 1].cmd = "Update"
               /\ emitted'[n - 1].id = msg'.phraseld
               /\ emitted'[n].cmd = "Commit"
               /\ emitted'[n].id = msg'.phraseld
               /\ emitted'[n].text = emitted'[n - 1].text
               /\ emitted'[n].text = prefix' \o DataGetText(msg')
               /\ msg'.phraseld \in finalized_phrases'
               /\ current_phrase_id' = None
               /\ current_phrase_text' = <<>>]_vars

\* C19: the id of the open phrase is never in the finalized set, and no step
\* removes an id from the finalized set.
C19_OpenNotFinalized ==
    /\ [](current_phrase_id # None => current_phrase_id \notin finalized_phrases)
    /\ [][finalized_phrases \subseteq finalized_phrases']_vars

\* C19 witness: a phrase is open, another id is finalized, and a message for
\* the finalized id was just read.
C19_Witness ==
    /\ pc = "loop" /\ connection_successful
    /\ current_phrase_id = 2
    /\ 1 \in finalized_phrases
    /\ msg.type = "phrase" /\ msg.translatedLanguageCode = target_lang
    /\ msg.phraseld = 1

\* The step read a target-language phrase message without phraseld in a
\* connected session.
IdLessRead ==
    /\ PhraseRead
    /\ connection_successful
    /\ msg'.translatedLanguageCode = target_lang
    /\ msg'.phraseld = None

\* C20: target-language phrase messages without phraseld are one phrase, the
\* phrase None.  With no phrase open they rewrite the line in place, keeping
\* the prefix and the speaker memory; one of them with isFinal puts None into
\* the finalized set, and from then on every such message is dropped: nothing
\* is printed and the buffer is unchanged.
C20_IdLessPhrase ==
    /\ [][(IdLessRead /\ None \notin finalized_phrases
              /\ current_phrase_id = None)
            => /\ UNCHANGED <<prefix, last_speaker_id, last_speaker_tag>>
               /\ msg'.translatedText # NullText
                    => emitted'[1] =
                         Update(None, ExistingPrefix(current_phrase_text)
                                        \o DataGetText(msg'))]_vars
    /\ [][(IdLessRead /\ None \notin finalized_phrases
              /\ msg'.isFinal /\ msg'.translatedText # NullText)
            => None \in finalized_phrases']_vars
    /\ [][(None \in finalized_phrases) => (None \in finalized_phrases')]_vars
    /\ [][(IdLessRead /\ None \in finalized_phrases)
            => /\ emitted' = <<>>
               /\ UNCHANGED <<buffer, prefix, commits>>]_vars

\* C20 witness: after an isFinal message without phraseld, another message
\* without phraseld was read while a phrase is open, and nothing was printed.
C20_Witness ==
    /\ pc = "loop" /\ connection_successful
    /\ None \in finalized_phrases
    /\ current_phrase_id \in PhraseIds
    /\ msg.type = "phrase" /\ msg.translatedLanguageCode = target_lang
    /\ msg.phraseld = None /\ msg.translatedText = <<"a">>
    /\ emitted = <<>>

\* The marker part and the name part of a prefix.
MarkerPart(on) == IF on THEN MARKER ELSE <<>>
NamePart(on, name) == IF on THEN name \o <<":", " ">> ELSE <<>>

\* The message msg' opens a phrase and names a speaker other than the
\* remembered one.
ChangedSpeaker ==
    <<msg'.speakerld, msg'.speakerTag>> # <<last_speaker_id, last_speaker_tag>>

\* C18 as stated: at phrase open the prefix is the change marker when the
\* speaker changed and markers are enabled, followed by "<name>: " when
\* name display is enabled and the message carries a name; the name part
\* depends only on the name option and the presence of a name.
C18_PrefixCompositionOriginal ==
    [][PhraseOpened
        => prefix' = MarkerPart(ChangedSpeaker /\ SHOW_SPEAKER_CHANGES)
                       \o NamePart(SHOW_SPEAKER_NAMES /\ msg'.name # <<>>,
                                   msg'.name)]_vars

\* C18 amended: at phrase open the prefix is empty when the speaker did not
\* change; when it changed, the prefix is the change marker if markers are
\* enabled, followed by "<name>: " if name display is enabled and the message
\* carries a name.  The marker precedes the name, and the phrase is printed
\* as the prefix followed by the text.
C18_PrefixComposition ==
    [][PhraseOpened
        => /\ prefix' = MarkerPart(ChangedSpeaker /\ SHOW_SPEAKER_CHANGES)
                          \o NamePart(ChangedSpeaker /\ SHOW_SPEAKER_NAMES
                                        /\ msg'.name # <<>>, msg'.name)
           /\ \E i \in 1..Len(emitted') :
                emitted'[i] = Update(msg'.phraseld,
                                     prefix' \o DataGetText(msg'))]_vars

\* C18 witness: with both options enabled a phrase of a new, named speaker
\* was opened with the marker followed by the name.
C18_Witness ==
    /\ SHOW_SPEAKER_NAMES /\ SHOW_SPEAKER_CHANGES
    /\ pc = "loop" /\ msg.type = "phrase" /\ msg.name = <<"n">>
    /\ current_phrase_id = msg.phraseld
    /\ current_phrase_id \in PhraseIds
    /\ prefix = MARKER \o <<"n", ":", " ">>
    /\ current_phrase_text = prefix \o <<"a">>

====
